---- MODULE Spec2Model ----
(***************************************************************************)
(* Model of jira_report/cli.py: the monthly Jira report command.           *)
(*                                                                         *)
(* Strings that the code takes apart (the blacklist file, issue keys, the  *)
(* values typed at a prompt) are sequences of one-character strings.       *)
(* Dates are records [year, month, day].  None is Python's None.           *)
(***************************************************************************)
EXTENDS Integers, Sequences, FiniteSets, TLC

VARIABLES
    pc,        \* position of the invocation inside run()/main()
    args,      \* the command line, then the argparse namespace
    outfile,   \* the file Jira_<Year>_<MonthName>.xls in the working directory
    environ,   \* names defined in os.environ
    dotenv,    \* the lines of the .env file, [name, value] each
    entered,   \* per secret, the values typed at its prompt, in order
    queries,   \* number of search_issues calls sent to the server
    found,     \* what find_issues() returned
    issues,    \* main()'s issues: what blacklist() returned
    skipped,   \* blacklist()'s counter of skipped issues
    hours,     \* the value month_hours() returned (None before)
    sheet,     \* the in-memory xlwt worksheet
    log,       \* the log records emitted, [level, msg] each
    raised,    \* the exception raised under run()'s try, "" when none was
    outcome    \* "running", "returned" (run() returned) or "traceback" (uncaught exception)

vars == <<pc, args, outfile, environ, dotenv, entered, queries, found, issues, skipped,
          hours, sheet, log, raised, outcome>>

\* Python's None, and a value that is not None
None == <<>>
Some(v) == <<v>>

-----------------------------------------------------------------------------
(* Bounds of the model *)

MaxIssues == 3      \* issues the server returns at most
MaxBlank == 1       \* blank answers typed at one prompt at most
MaxTextLen == 4     \* characters of a blacklist file (blacklist specification)
MaxKeys == 3        \* issues handed to blacklist() (blacklist specification)

-----------------------------------------------------------------------------
(* Text helpers: str.strip, str.split('\n') *)

NL == "\n"
Whitespace == {" ", NL}

RECURSIVE LStrip(_)
LStrip(s) ==
    IF s # <<>> /\ Head(s) \in Whitespace THEN LStrip(Tail(s)) ELSE s

RECURSIVE RStrip(_)
RStrip(s) ==
    IF s # <<>> /\ s[Len(s)] \in Whitespace
    THEN RStrip(SubSeq(s, 1, Len(s) - 1))
    ELSE s

\* str.strip(): leading and trailing whitespace removed
Strip(s) == RStrip(LStrip(s))

\* str.split('\n'): the pieces between newlines, always at least one piece
RECURSIVE SplitFrom(_, _)
SplitFrom(s, cur) ==
    IF s = <<>> THEN <<cur>>
    ELSE IF Head(s) = NL THEN <<cur>> \o SplitFrom(Tail(s), <<>>)
    ELSE SplitFrom(Tail(s), Append(cur, Head(s)))

Split(s) == SplitFrom(s, <<>>)

MapStrip(lines) == [i \in 1..Len(lines) |-> Strip(lines[i])]

NonEmptyLine(x) == x # <<>>

\* line 96 without the strip(): [x for x in text.split('\n') if x != '']
blacklistedMut(text) == SelectSeq(Split(text), NonEmptyLine)

\* line 96: [x.strip() for x in text.split('\n') if x != '']
blacklisted(text) == MapStrip(SelectSeq(Split(text), NonEmptyLine))

InList(x, list) == \E i \in 1..Len(list) : list[i] = x

\* lines 98-104: the filtering loop, [kept, skipped]
RECURSIVE FilterLoop(_, _, _, _)
FilterLoop(rest, entries, kept, nskipped) ==
    IF rest = <<>> THEN [kept |-> kept, skipped |-> nskipped]
    ELSE IF InList(Head(rest).key, entries)
         THEN FilterLoop(Tail(rest), entries, kept, nskipped + 1)
         ELSE FilterLoop(Tail(rest), entries, Append(kept, Head(rest)), nskipped)

\* lines 89-109: blacklist(blacklist_path, issues); path None returns the list itself,
\* otherwise path[1].text is what blacklist_path.read_text() returns
blacklist(path, list) ==
    IF path = None
    THEN [kept |-> list, skipped |-> 0]
    ELSE FilterLoop(list, blacklisted(path[1].text), <<>>, 0)

-----------------------------------------------------------------------------
(* Calendar: calendar.monthrange, datetime.date.weekday, workdays.networkdays *)

\* calendar.isleap
isleap(year) == year % 4 = 0 /\ (year % 100 # 0 \/ year % 400 = 0)

\* calendar.mdays
mdays == <<31, 28, 31, 30, 31, 30, 31, 31, 30, 31, 30, 31>>

\* lines 154-157: calendar.monthrange(year, month)[1]
month_days(date) ==
    mdays[date.month] + (IF date.month = 2 /\ isleap(date.year) THEN 1 ELSE 0)

\* datetime: days before January 1st of year
DaysBeforeYear(year) ==
    LET y == year - 1 IN y * 365 + (y \div 4) - (y \div 100) + (y \div 400)

RECURSIVE DaysBeforeMonth(_, _)
DaysBeforeMonth(year, month) ==
    IF month = 1 THEN 0
    ELSE DaysBeforeMonth(year, month - 1)
         + month_days([year |-> year, month |-> month - 1, day |-> 1])

\* datetime.date.toordinal(): January 1st of year 1 is day 1
toordinal(date) ==
    DaysBeforeYear(date.year) + DaysBeforeMonth(date.year, date.month) + date.day

\* datetime.date.weekday() of the day with this ordinal: Monday is 0, Sunday is 6
weekday(ordinal) == (ordinal + 6) % 7

weekends == {5, 6}

\* networkdays with the last week counted whole: the days that complete it
\* are not taken off
networkdaysMut(start, end) ==
    LET delta_days == (end - start) + 1
        full_weeks == delta_days \div 7
    IN (full_weeks + 1) * (7 - Cardinality(weekends))

\* workdays.networkdays(start_date, end_date) without holidays, on ordinals:
\* whole weeks (rounded up) times five, minus the work days of the days that
\* complete the last week
networkdays(start, end) ==
    LET delta_days == (end - start) + 1
        full_weeks == delta_days \div 7
        extra_days == delta_days % 7
        removed    == {d \in 1..(7 - extra_days) : weekday(end + d) \notin weekends}
    IN (full_weeks + 1) * (7 - Cardinality(weekends)) - Cardinality(removed)

\* month_hours with "if not business_days:" for "if business_days is None:",
\* which takes an override of 0 for no override
month_hoursMut(date, business_days) ==
    LET start_date == [year |-> date.year, month |-> date.month, day |-> 1]
        end_date   == [year |-> date.year, month |-> date.month, day |-> month_days(date)]
        days == IF business_days = None \/ business_days = Some(0)
                THEN networkdays(toordinal(start_date), toordinal(end_date))
                ELSE business_days[1]
    IN days * 8

\* lines 160-170: month_hours(date, business_days)
month_hours(date, business_days) ==
    LET start_date == [year |-> date.year, month |-> date.month, day |-> 1]
        end_date   == [year |-> date.year, month |-> date.month, day |-> month_days(date)]
        days == IF business_days = None
                THEN networkdays(toordinal(start_date), toordinal(end_date))
                ELSE business_days[1]
    IN days * 8

-----------------------------------------------------------------------------
(* The worksheet xls_export builds *)

column_headers ==
    <<"Task ID", "Task Key", "Task URL", "Project Name", "Created At",
      "Description", "Worklog">>

\* lines 254-260: the custom field, or None when the issue has none
story_points(issue) == issue.points

\* line 265: H{row + 1}/SUM(H2:H{len(issues) + 1})*H1, as the cells it names
\* (spreadsheet row k is sheet row k - 1; column H is column 7)
hours_worked(row, list) ==
    [num |-> <<row, 7>>, lo |-> <<1, 7>>, hi |-> <<Len(list), 7>>, total |-> <<0, 7>>]

\* lines 216-223: the cell written at (row, col) for issue
RowCell(row, col, issue, list) ==
    CASE col = 0 -> [t |-> "id", v |-> issue.id, style |-> "middle"]
      [] col = 1 -> [t |-> "text", v |-> issue.key, style |-> "middle"]
      [] col = 2 -> [t |-> "link", v |-> issue.key, style |-> "middle"]
      [] col = 3 -> [t |-> "project", v |-> issue.key, style |-> "middle"]
      [] col = 4 -> [t |-> "created", v |-> issue.key, style |-> "date_format"]
      [] col = 5 -> [t |-> "summary", v |-> issue.key, style |-> "middle"]
      [] col = 6 -> [t |-> "formula", v |-> hours_worked(row, list), style |-> "hours_format"]
      [] col = 7 -> IF story_points(issue) = None
                    THEN [t |-> "blank", v |-> None, style |-> "invisible"]
                    ELSE [t |-> "number", v |-> story_points(issue)[1], style |-> "invisible"]

\* xls_export with a loop that stops one issue early
SheetCellsMut(list, total) ==
    [p \in ({0} \X (0..7)) \cup ((1..(Len(list) - 1)) \X (0..7)) |->
        IF p[1] = 0
        THEN IF p[2] <= 6
             THEN [t |-> "header", v |-> column_headers[p[2] + 1], style |-> "bold"]
             ELSE [t |-> "number", v |-> total, style |-> "invisible"]
        ELSE RowCell(p[1], p[2], list[p[1]], list)]

\* lines 210-225: header row, one row per issue from row 1 on, the hours in (0, 7)
SheetCells(list, total) ==
    [p \in ({0} \X (0..7)) \cup ((1..Len(list)) \X (0..7)) |->
        IF p[1] = 0
        THEN IF p[2] <= 6
             THEN [t |-> "header", v |-> column_headers[p[2] + 1], style |-> "bold"]
             ELSE [t |-> "number", v |-> total, style |-> "invisible"]
        ELSE RowCell(p[1], p[2], list[p[1]], list)]

EmptySheet == [p \in {} |-> None]

\* What a spreadsheet application computes for the formula of line 265: a blank
\* cell counts as 0, a division by zero is the error value #DIV/0!, every
\* other value is the exact fraction num/den
CellNumber(sh, p) == IF sh[p].t = "number" THEN sh[p].v ELSE 0

RECURSIVE ColumnSum(_, _, _)
ColumnSum(sh, lo, hi) ==
    IF lo > hi THEN 0 ELSE CellNumber(sh, <<lo, 7>>) + ColumnSum(sh, lo + 1, hi)

FormulaValue(sh, f) ==
    LET s == ColumnSum(sh, f.lo[1], f.hi[1])
    IN IF s = 0
       THEN [error |-> TRUE, num |-> 0, den |-> 1]
       ELSE [error |-> FALSE, num |-> CellNumber(sh, f.num) * CellNumber(sh, f.total), den |-> s]

-----------------------------------------------------------------------------
(* The invocation: run() -> main(parse_args()) *)

Secrets == <<"JIRA_SERVER_URL", "JIRA_USERNAME", "JIRA_API_TOKEN">>
SecretSet == {Secrets[i] : i \in 1..Len(Secrets)}

LoadVarPc == <<"load_var_1", "load_var_2", "load_var_3">>

Log(level, msg) == [level |-> level, msg |-> msg]

\* environs.load_dotenv(): the names of .env become defined in os.environ
load_dotenv(env, file) == env \cup {file[i].name : i \in 1..Len(file)}

\* lines 37-42: what run() does with an exception raised under it, the log
\* being lg: ValueError is logged as an error, KeyboardInterrupt as the warning
\* 'Aborted', and any other exception leaves run() uncaught (the interpreter
\* prints the traceback)
Raise(exc, lg) ==
    /\ pc' = "done"
    /\ raised' = exc
    /\ CASE exc = "ValueError" ->
              /\ log' = Append(lg, Log("ERROR", exc))
              /\ outcome' = "returned"
         [] exc = "KeyboardInterrupt" ->
              /\ log' = Append(lg, Log("WARNING", "Aborted"))
              /\ outcome' = "returned"
         [] OTHER ->
              /\ log' = lg
              /\ outcome' = "traceback"

\* lines 81-84: the blacklist option names something that is not a file
InvalidPath(path) == path # None /\ ~path[1].valid

\* lines 62-86: parse_args(); an invalid blacklist path raises ValueError
ParseArgs ==
    /\ pc = "parse_args"
    /\ IF InvalidPath(args.blacklist)
       THEN Raise("ValueError", log)
       ELSE /\ pc' = "main"
            /\ UNCHANGED <<log, raised, outcome>>
    /\ UNCHANGED <<args, outfile, environ, dotenv, entered, queries, found, issues,
                   skipped, hours, sheet>>

\* line 51 with the flag the wrong way round: exists and force_overwrite
FileCollisionMut(file, force_overwrite) == file.state # "absent" /\ force_overwrite

\* line 51: os.path.exists(filename) and not args.force_overwrite
FileCollision(file, force_overwrite) == file.state # "absent" /\ ~force_overwrite

\* lines 48-53: the collision check
CollisionCheck ==
    /\ pc = "main"
    /\ IF FileCollision(outfile, args.force_overwrite)
       THEN /\ log' = Append(log, Log("ERROR", "File already exists"))
            /\ pc' = "done"
            /\ outcome' = "returned"
       ELSE /\ pc' = "jira_config"
            /\ UNCHANGED <<log, outcome>>
    /\ UNCHANGED <<args, outfile, environ, dotenv, entered, queries, found, issues,
                   skipped, hours, sheet, raised>>

\* line 115: jira_config() starts with environs.load_dotenv()
JiraConfig ==
    /\ pc = "jira_config"
    /\ environ' = load_dotenv(environ, dotenv)
    /\ pc' = LoadVarPc[1]
    /\ UNCHANGED <<args, outfile, dotenv, entered, queries, found, issues, skipped,
                   hours, sheet, log, raised, outcome>>

\* lines 117-119, then line 54 calls find_issues
AfterLoadVar(i) == IF i < Len(Secrets) THEN LoadVarPc[i + 1] ELSE "find_issues"

\* line 129: the test of load_var(name)
Missing(name, env) == name \notin env

\* line 129: load_var(name) when name is in os.environ
LoadVarPresent(i) ==
    /\ pc = LoadVarPc[i]
    /\ ~Missing(Secrets[i], environ)
    /\ pc' = AfterLoadVar(i)
    /\ UNCHANGED <<args, outfile, environ, dotenv, entered, queries, found, issues,
                   skipped, hours, sheet, log, raised, outcome>>

\* line 133 without the strip(): value != ''
AcceptedMut(value) == value # <<>>

\* line 133: value.strip() != ''
Accepted(value) == Strip(value) # <<>>

\* lines 130-137: one pass of the prompt loop of load_var(name); a blank answer
\* asks again, another one is appended to .env, which is loaded again
LoadVarPrompt(i, value) ==
    /\ pc = LoadVarPc[i]
    /\ Missing(Secrets[i], environ)
    /\ Strip(value) = <<>> => Len(entered[Secrets[i]]) < MaxBlank
    /\ entered' = [entered EXCEPT ![Secrets[i]] = Append(@, value)]
    /\ IF Accepted(value)
       THEN /\ dotenv' = Append(dotenv, [name |-> Secrets[i], value |-> value])
            /\ environ' = load_dotenv(environ, dotenv')
            /\ pc' = AfterLoadVar(i)
       ELSE UNCHANGED <<dotenv, environ, pc>>
    /\ UNCHANGED <<args, outfile, queries, found, issues, skipped, hours, sheet, log,
                   raised, outcome>>

\* lines 140-144: find_issues() when the server answers with result
\* (logging.info before the request is sent)
FindIssues(result) ==
    /\ pc = "find_issues"
    /\ log' = Append(log, Log("INFO", "Querying Jira..."))
    /\ queries' = queries + 1
    /\ found' = result
    /\ pc' = "blacklist"
    /\ UNCHANGED <<args, outfile, environ, dotenv, entered, issues, skipped, hours,
                   sheet, raised, outcome>>

\* lines 143-144: jira.JIRA(...) raises before the query is sent, or
\* search_issues raises after it was sent (JIRAError, a connection error)
FindIssuesFails(exc, sent) ==
    /\ pc = "find_issues"
    /\ queries' = queries + (IF sent THEN 1 ELSE 0)
    /\ Raise(exc, Append(log, Log("INFO", "Querying Jira...")))
    /\ UNCHANGED <<args, outfile, environ, dotenv, entered, found, issues, skipped,
                   hours, sheet>>

\* line 54: blacklist(args.blacklist, ...) with its log lines (95, 106-107)
Blacklist ==
    /\ pc = "blacklist"
    /\ LET r == blacklist(args.blacklist, found)
           l1 == IF args.blacklist = None THEN log
                 ELSE Append(log, Log("INFO", "Using blacklist from"))
       IN /\ issues' = r.kept
          /\ skipped' = r.skipped
          /\ log' = IF r.skipped > 0
                    THEN Append(l1, Log("INFO", "Skipped blacklisted issues"))
                    ELSE l1
    /\ pc' = "count"
    /\ UNCHANGED <<args, outfile, environ, dotenv, entered, queries, found, hours,
                   sheet, raised, outcome>>

\* line 55 with >= for >
HasTasksMut(list) == Len(list) >= 0

\* line 55: len(issues) > 0
HasTasks(list) == Len(list) > 0

\* lines 55-59: the branch on len(issues)
CountIssues ==
    /\ pc = "count"
    /\ IF HasTasks(issues)
       THEN /\ log' = Append(log, Log("INFO", "Found tasks"))
            /\ pc' = "month_hours"
            /\ UNCHANGED outcome
       ELSE /\ log' = Append(log, Log("INFO", "There were no tasks"))
            /\ pc' = "done"
            /\ outcome' = "returned"
    /\ UNCHANGED <<args, outfile, environ, dotenv, entered, queries, found, issues,
                   skipped, hours, sheet, raised>>

\* line 57: month_hours(args.date, args.business_days), with its log line (168)
MonthHours ==
    /\ pc = "month_hours"
    /\ hours' = Some(month_hours(args.date, args.business_days))
    /\ log' = Append(log, Log("INFO", "Business days"))
    /\ pc' = "xls_export"
    /\ UNCHANGED <<args, outfile, environ, dotenv, entered, queries, found, issues,
                   skipped, sheet, raised, outcome>>

\* lines 193-225: xls_export() fills the worksheet in memory
XlsExport ==
    /\ pc = "xls_export"
    /\ sheet' = SheetCells(issues, hours[1])
    /\ pc' = "save_open"
    /\ UNCHANGED <<args, outfile, environ, dotenv, entered, queries, found, issues,
                   skipped, hours, log, raised, outcome>>

\* line 227: workbook.save(filename) opens the file for writing, which creates
\* it or empties it ...
SaveOpen ==
    /\ pc = "save_open"
    /\ outfile' = [state |-> "partial", cells |-> EmptySheet]
    /\ pc' = "save_write"
    /\ UNCHANGED <<args, environ, dotenv, entered, queries, found, issues, skipped,
                   hours, sheet, log, raised, outcome>>

\* ... then writes the workbook and closes the file; line 228 logs the path
SaveWrite ==
    /\ pc = "save_write"
    /\ outfile' = [state |-> "complete", cells |-> sheet]
    /\ log' = Append(log, Log("INFO", "Exported file"))
    /\ pc' = "done"
    /\ outcome' = "returned"
    /\ UNCHANGED <<args, environ, dotenv, entered, queries, found, issues, skipped,
                   hours, sheet, raised>>

\* lines 41-42: Ctrl-C while run() is at any step of main(parse_args())
Interrupt ==
    /\ pc # "done"
    /\ Raise("KeyboardInterrupt", log)
    /\ UNCHANGED <<args, outfile, environ, dotenv, entered, queries, found, issues,
                   skipped, hours, sheet>>

-----------------------------------------------------------------------------
(* Inputs *)

Letters == <<"A", "B", "C", "D", "E", "F">>

\* the issue with key Letters[k] and the given story points
Issue(k, points) == [id |-> 10000 + k, key |-> <<Letters[k]>>, points |-> points]

\* the story points of the issue with key Letters[k]: none, 2, 0, 3, none, 5
PointsOf == <<None, Some(2), Some(0), Some(3), None, Some(5)>>

RECURSIVE SeqsUpTo(_, _)
SeqsUpTo(S, n) ==
    IF n = 0 THEN {<<>>}
    ELSE LET shorter == SeqsUpTo(S, n - 1)
         IN shorter \cup {Append(q, x) : q \in shorter, x \in S}

Distinct(q) == \A i, j \in 1..Len(q) : q[i].key = q[j].key => i = j

\* what the server may answer: up to MaxIssues issues, each once, in any order
ServerResults ==
    {q \in SeqsUpTo({Issue(k, PointsOf[k]) : k \in 1..MaxIssues}, MaxIssues) :
        Distinct(q)}

RemoteErrors == {"JIRAError", "ConnectionError"}

\* what may be typed at a prompt
Answers == {<<" ">>, <<"x">>}

File(valid, text) == [valid |-> valid, text |-> text]

PipelineBlacklists ==
    {None,
     Some(File(FALSE, <<>>)),
     Some(File(TRUE, <<"B", NL>>)),
     Some(File(TRUE, <<"A", NL, " ", "B", NL, NL, "C", NL, "D">>))}

PipelineDates == {[year |-> 2021, month |-> 2, day |-> 1]}

Overrides == {None, Some(0)}

StoredSecret(name) == [name |-> name, value |-> <<"x">>]

\* the .env file holding the secrets of S, in the order of Secrets
RECURSIVE StoredFrom(_, _)
StoredFrom(S, i) ==
    IF i > Len(Secrets) THEN <<>>
    ELSE (IF Secrets[i] \in S THEN <<StoredSecret(Secrets[i])>> ELSE <<>>)
         \o StoredFrom(S, i + 1)

Init ==
    /\ pc = "parse_args"
    /\ args \in [date : PipelineDates, force_overwrite : BOOLEAN,
                  business_days : Overrides, blacklist : PipelineBlacklists]
    /\ outfile \in {[state |-> "absent", cells |-> EmptySheet],
                     [state |-> "old", cells |-> EmptySheet]}
    /\ \E E \in {{}, {Secrets[1]}} : \E F \in SUBSET (SecretSet \ E) :
          /\ environ = E
          /\ dotenv = StoredFrom(F, 1)
    /\ entered = [n \in SecretSet |-> <<>>]
    /\ queries = 0
    /\ found = <<>>
    /\ issues = <<>>
    /\ skipped = 0
    /\ hours = None
    /\ sheet = EmptySheet
    /\ log = <<>>
    /\ raised = ""
    /\ outcome = "running"

Next ==
    \/ ParseArgs
    \/ CollisionCheck
    \/ JiraConfig
    \/ \E i \in 1..Len(Secrets) : LoadVarPresent(i)
    \/ \E i \in 1..Len(Secrets) : \E value \in Answers : LoadVarPrompt(i, value)
    \/ \E result \in ServerResults : FindIssues(result)
    \/ \E exc \in RemoteErrors : \E sent \in BOOLEAN : FindIssuesFails(exc, sent)
    \/ Blacklist
    \/ CountIssues
    \/ MonthHours
    \/ XlsExport
    \/ SaveOpen
    \/ SaveWrite
    \/ Interrupt

Spec == Init /\ [][Next]_vars

-----------------------------------------------------------------------------
(* blacklist() alone, on every file text and issue list within the bounds *)

Chars == {"A", "a", " ", NL}

BlacklistKeys == {<<"A">>, <<"a">>, <<"a", "A">>}

BlacklistIssues == {[id |-> 10000 + Len(k), key |-> k, points |-> None] : k \in BlacklistKeys}

InitBlacklist ==
    /\ pc = "blacklist"
    /\ \E b \in {None} \cup {Some(File(TRUE, t)) : t \in SeqsUpTo(Chars, MaxTextLen)} :
          args = [date |-> [year |-> 2021, month |-> 2, day |-> 1],
                  force_overwrite |-> FALSE, business_days |-> None, blacklist |-> b]
    /\ outfile = [state |-> "absent", cells |-> EmptySheet]
    /\ environ = SecretSet
    /\ dotenv = StoredFrom(SecretSet, 1)
    /\ entered = [n \in SecretSet |-> <<>>]
    /\ queries = 1
    /\ found \in SeqsUpTo(BlacklistIssues, MaxKeys)
    /\ issues = <<>>
    /\ skipped = 0
    /\ hours = None
    /\ sheet = EmptySheet
    /\ log = <<Log("INFO", "Querying Jira...")>>
    /\ raised = ""
    /\ outcome = "running"

NextBlacklist == Blacklist

SpecBlacklist == InitBlacklist /\ [][NextBlacklist]_vars

-----------------------------------------------------------------------------
(* month_hours() alone, on the months of several years *)

CalendarYears == {1900, 2000, 2019, 2020, 2021, 2023, 2024, 2100}

CalendarDates ==
    {[year |-> y, month |-> m, day |-> d] : y \in CalendarYears, m \in 1..12, d \in {1, 15, 28}}

CalendarOverrides == {None, Some(0), Some(1), Some(21), Some(-3)}

InitCalendar ==
    /\ pc = "month_hours"
    /\ args \in [date : CalendarDates, force_overwrite : {FALSE},
                 business_days : CalendarOverrides, blacklist : {None}]
    /\ outfile = [state |-> "absent", cells |-> EmptySheet]
    /\ environ = SecretSet
    /\ dotenv = StoredFrom(SecretSet, 1)
    /\ entered = [n \in SecretSet |-> <<>>]
    /\ queries = 1
    /\ found = <<Issue(1, PointsOf[1])>>
    /\ issues = found
    /\ skipped = 0
    /\ hours = None
    /\ sheet = EmptySheet
    /\ log = <<Log("INFO", "Querying Jira..."), Log("INFO", "Found tasks")>>
    /\ raised = ""
    /\ outcome = "running"

NextCalendar == MonthHours

SpecCalendar == InitCalendar /\ [][NextCalendar]_vars

-----------------------------------------------------------------------------
(* What the properties below are stated with *)

Count(lg, msg) == Cardinality({i \in 1..Len(lg) : lg[i].msg = msg})

CountLevel(lg, level) == Cardinality({i \in 1..Len(lg) : lg[i].level = level})

Unwritten(file) == file.state \in {"absent", "old"}

NoPrompts == \A n \in SecretSet : entered[n] = <<>>

\* the exclusion list of a blacklist file: its lines, trimmed, blank ones dropped
ExclusionKeys(path) ==
    IF path = None THEN {}
    ELSE LET lines == Split(path[1].text)
         IN {Strip(lines[i]) : i \in 1..Len(lines)} \ {<<>>}

\* the issues of list whose key is no entry of the exclusion list, in order
Retained(list, path) ==
    LET Keep(x) == x.key \notin ExclusionKeys(path)
    IN SelectSeq(list, Keep)

KeysOf(list) == [i \in 1..Len(list) |-> list[i].key]

\* Gregorian month length and day of week (Monday is 0), computed without the
\* ordinals of the model: the day of week by Sakamoto's method
MonthLength(year, month) ==
    IF month = 2 THEN (IF isleap(year) THEN 29 ELSE 28)
    ELSE IF month \in {4, 6, 9, 11} THEN 30 ELSE 31

DayOfWeek(year, month, day) ==
    LET t == <<0, 3, 2, 5, 0, 3, 5, 1, 4, 6, 2, 4>>
        y == IF month < 3 THEN year - 1 ELSE year
        sunday0 == (y + (y \div 4) - (y \div 100) + (y \div 400) + t[month] + day) % 7
    IN (sunday0 + 6) % 7

\* the number of Monday-Friday dates of the month
BusinessDays(year, month) ==
    Cardinality({d \in 1..MonthLength(year, month) : DayOfWeek(year, month, d) \in 0..4})

\* the values of the hours formulas of rows 1..n of a saved sheet
RowHours(cells, n) == [i \in 1..n |-> FormulaValue(cells, cells[<<i, 6>>].v)]

RECURSIVE SumNum(_, _)
SumNum(vals, i) == IF i = 0 THEN 0 ELSE vals[i].num + SumNum(vals, i - 1)

-----------------------------------------------------------------------------
(* Properties *)

\* Nothing has happened when the collision check runs; with the file there and
\* no force flag the run sends no query, asks nothing and ends with one error
C1_State ==
    /\ pc \in {"parse_args", "main"} =>
          /\ queries = 0 /\ NoPrompts /\ log = <<>>
          /\ Unwritten(outfile) /\ sheet = EmptySheet /\ hours = None
    /\ (outfile.state = "old" /\ ~args.force_overwrite) =>
          /\ queries = 0 /\ NoPrompts
          /\ pc \in {"parse_args", "main", "done"}
          /\ (pc = "done" /\ raised = "") =>
                /\ log = <<Log("ERROR", "File already exists")>>
                /\ outcome = "returned"

\* With the file there and no force flag no step changes the output file or
\* the credential store
C1_Step ==
    (outfile.state = "old" /\ ~args.force_overwrite) =>
        /\ outfile' = outfile
        /\ dotenv' = dotenv
        /\ environ' = environ

\* C1: when the target file exists and overwriting is not forced, the run sends
\* no query, prompts for nothing, changes neither the output file nor the
\* credential store, and ends right after the 'File already exists' error;
\* nothing has happened yet when the collision check runs.
C1_CollisionHasNoSideEffects == []C1_State /\ [][C1_Step]_vars

C1_Witness ==
    /\ pc = "done" /\ raised = ""
    /\ outfile.state = "old" /\ ~args.force_overwrite
    /\ log = <<Log("ERROR", "File already exists")>>

\* C2: in a saved report with n >= 1 rows, the values of the n hours formulas
\* H{i+1}/SUM(H2:H{n+1})*H1 add up to the total hours in H1, whatever the
\* story points in column H are (missing ones included).
C2_RowHoursSumToTotal ==
    outfile.state = "complete" =>
        LET n == Len(issues)
            vals == RowHours(outfile.cells, n)
        IN /\ \A i \in 1..n : ~vals[i].error
           /\ SumNum(vals, n) = outfile.cells[<<0, 7>>].v * vals[1].den

\* C3: when no issue is left after the filter, no output file is written (one
\* reached by force-overwrite stays as it was), the total hours are not
\* computed, 'There were no tasks' is logged exactly once and run() returns.
C3_NoTasksWritesNothing ==
    /\ pc \in {"month_hours", "xls_export", "save_open", "save_write"} => issues # <<>>
    /\ (pc = "count" /\ issues = <<>>) =>
          /\ hours = None /\ Unwritten(outfile)
          /\ Count(log, "There were no tasks") = 0
    /\ (pc = "done" /\ raised = "" /\ queries > 0 /\ issues = <<>>) =>
          /\ hours = None /\ sheet = EmptySheet /\ Unwritten(outfile)
          /\ Count(log, "There were no tasks") = 1
          /\ log[Len(log)].msg = "There were no tasks"
          /\ outcome = "returned"

C3_Witness ==
    /\ pc = "done" /\ raised = ""
    /\ found # <<>> /\ issues = <<>>
    /\ outfile.state = "old" /\ args.force_overwrite
    /\ Count(log, "There were no tasks") = 1

\* C4: blacklist() returns the issues whose key is no entry of the exclusion
\* list (the trimmed non-blank lines of the file, compared case-sensitively),
\* in their order; skipped plus kept is the number of issues; without a path
\* the list comes back unchanged.
C4_BlacklistIsStableFilter ==
    pc = "count" =>
        /\ issues = Retained(found, args.blacklist)
        /\ skipped + Len(issues) = Len(found)
        /\ args.blacklist = None => issues = found

C4_Witness ==
    /\ pc = "count"
    /\ args.blacklist # None
    /\ skipped = 1 /\ Len(issues) = 2
    /\ \E i \in 1..Len(Split(args.blacklist[1].text)) :
          LET line == Split(args.blacklist[1].text)[i]
          IN /\ Strip(line) # line
             /\ \E j \in 1..Len(found) : found[j].key = Strip(line)
    /\ \E j \in 1..Len(issues) : issues[j].key = <<"a">>
    /\ <<"A">> \in ExclusionKeys(args.blacklist)

\* C5: when the remote query fails, the run does not query again, writes no
\* output file, and run() reports the failure as exactly one error log line
\* instead of ending with an uncaught exception.
C5_RemoteFailureIsLogged ==
    (pc = "done" /\ raised \in RemoteErrors) =>
        /\ queries <= 1
        /\ Unwritten(outfile)
        /\ outcome = "returned"
        /\ CountLevel(log, "ERROR") = 1

\* C6: a KeyboardInterrupt at any step of run() ends the run with exactly one
\* 'Aborted' warning, no traceback, and no partial output file on disk.
C6_InterruptLeavesNoPartialFile ==
    (pc = "done" /\ raised = "KeyboardInterrupt") =>
        /\ Count(log, "Aborted") = 1
        /\ outcome = "returned"
        /\ outfile.state # "partial"

\* C7: a saved report has exactly the header row 0, the total hours in the
\* hidden cell (0, 7), and one row per retained issue, issue i in row i, in the
\* order the query returned them; no excluded issue is in any row; issues
\* A, B, C with the exclusion list {B} give the rows A, C.
C7_OneRowPerRetainedIssue ==
    outfile.state = "complete" =>
        LET cells == outfile.cells
            kept == Retained(found, args.blacklist)
            n == Len(kept)
        IN /\ n >= 1
           /\ DOMAIN cells = (0..n) \X (0..7)
           /\ \A c \in 0..6 : cells[<<0, c>>].t = "header"
           /\ cells[<<0, 7>>].t = "number" /\ cells[<<0, 7>>].v = hours[1]
           /\ \A i \in 1..n :
                 /\ cells[<<i, 0>>].t = "id" /\ cells[<<i, 0>>].v = kept[i].id
                 /\ cells[<<i, 1>>].t = "text" /\ cells[<<i, 1>>].v = kept[i].key
                 /\ cells[<<i, 1>>].v \notin ExclusionKeys(args.blacklist)
           /\ (KeysOf(found) = << <<"A">>, <<"B">>, <<"C">> >>
               /\ ExclusionKeys(args.blacklist) = {<<"B">>}) =>
                 /\ n = 2
                 /\ cells[<<1, 1>>].v = <<"A">>
                 /\ cells[<<2, 1>>].v = <<"C">>

C7_Witness ==
    /\ outfile.state = "complete"
    /\ KeysOf(found) = << <<"A">>, <<"B">>, <<"C">> >>
    /\ ExclusionKeys(args.blacklist) = {<<"B">>}
    /\ DOMAIN outfile.cells = (0..2) \X (0..7)
    /\ outfile.cells[<<1, 1>>].v = <<"A">>
    /\ outfile.cells[<<2, 1>>].v = <<"C">>

\* C8: month_hours(date, override) is override * 8 when an override is given
\* (0 included), otherwise 8 times the number of Monday-Friday dates of the
\* month of date; the day of month plays no part.
C8_MonthHours ==
    hours # None =>
        hours[1] = IF args.business_days # None
                   THEN args.business_days[1] * 8
                   ELSE 8 * BusinessDays(args.date.year, args.date.month)

C8_Witness ==
    /\ hours = Some(168)
    /\ args.business_days = None
    /\ args.date = [year |-> 2024, month |-> 2, day |-> 15]

\* a secret is in the store when os.environ or the .env file defines it
InStore(name) == name \in environ \/ \E i \in 1..Len(dotenv) : dotenv[i].name = name

StoreLines(file, name) == Cardinality({i \in 1..Len(file) : file[i].name = name})

\* All secrets are defined once jira_config() is over; .env holds a secret at
\* most once; every answer but the last was blank, and the last one, not
\* blank, is the one in .env
C9_State ==
    /\ (queries > 0 \/ pc \in {"find_issues", "blacklist", "count", "month_hours",
                               "xls_export", "save_open", "save_write"})
          => SecretSet \subseteq environ
    /\ \A n \in SecretSet :
          /\ StoreLines(dotenv, n) <= 1
          /\ \A k \in 1..(Len(entered[n]) - 1) : Strip(entered[n][k]) = <<>>
          /\ (entered[n] # <<>> /\ n \in environ) =>
                LET last == entered[n][Len(entered[n])]
                IN /\ Strip(last) # <<>>
                   /\ \E i \in 1..Len(dotenv) : dotenv[i] = [name |-> n, value |-> last]
          /\ (entered[n] # <<>> /\ n \notin environ) =>
                Strip(entered[n][Len(entered[n])]) = <<>>

\* A secret in the store is not asked for and not appended; one that enters
\* the store was asked for and appended; prompts happen in load_var only
C9_Step ==
    \A n \in SecretSet :
        /\ InStore(n) =>
              /\ entered'[n] = entered[n]
              /\ StoreLines(dotenv', n) = StoreLines(dotenv, n)
        /\ (~InStore(n) /\ InStore(n)') =>
              /\ entered'[n] # <<>>
              /\ dotenv' = Append(dotenv, [name |-> n, value |-> entered'[n][Len(entered'[n])]])
        /\ entered'[n] # entered[n] =>
              \E i \in 1..Len(Secrets) : Secrets[i] = n /\ pc = LoadVarPc[i]

\* C9: past the collision check, a missing secret is asked for until the
\* answer is not blank and is appended to .env exactly once; a secret that is
\* present is neither asked for nor appended; all three are defined when the
\* query is sent.
C9_SecretsPromptedOnce == []C9_State /\ [][C9_Step]_vars

C9_Witness ==
    /\ pc = "find_issues"
    /\ entered["JIRA_SERVER_URL"] = <<>>
    /\ entered["JIRA_USERNAME"] = << <<" ">>, <<"x">> >>
    /\ entered["JIRA_API_TOKEN"] = << <<"x">> >>
    /\ StoreLines(dotenv, "JIRA_SERVER_URL") = 1
    /\ StoreLines(dotenv, "JIRA_USERNAME") = 1
    /\ StoreLines(dotenv, "JIRA_API_TOKEN") = 1

\* C10 as stated: for 2021/02 and an override of 0 business days, month_hours
\* returns the business days of 2021-02-01..2021-02-28 times 8.
C10_ZeroOverrideGivesMonthHours ==
    (hours # None /\ args.date.year = 2021 /\ args.date.month = 2
       /\ args.business_days = Some(0)) =>
        hours[1] = BusinessDays(2021, 2) * 8

\* C10 as amended: for 2021/02 month_hours returns the business days of the
\* month times 8, which is 160, when no override is given, and 0 when the
\* override is 0.
C10_FebruaryHours ==
    (hours # None /\ args.date.year = 2021 /\ args.date.month = 2) =>
        /\ args.business_days = None =>
              hours[1] = BusinessDays(2021, 2) * 8 /\ hours[1] = 160
        /\ args.business_days = Some(0) => hours[1] = 0

C10_Witness ==
    /\ hours = Some(160)
    /\ args.business_days = None
    /\ args.date.year = 2021 /\ args.date.month = 2

====
